---- MODULE Spec2Model ----
(***************************************************************************)
(* Model of tracker.py: the fitness tracker's training classes, the        *)
(* read_package factory, the main reporter and the __main__ driver loop.   *)
(*                                                                         *)
(* Python floats are modelled as exact rationals <<n, d>> (d > 0, lowest   *)
(* terms): the formulas are evaluated operation by operation in the order  *)
(* the source evaluates them, without the rounding of IEEE doubles; the    *)
(* '.3f' conversion rounds the exact value, halves to even.  An exception  *)
(* is the outcome of the call that raises it, and an exception nobody      *)
(* catches ends the program (pc = "crashed").                              *)
(***************************************************************************)
EXTENDS Integers, Sequences, FiniteSets

VARIABLES packages, idx, pc, training, info, out, exc

vars == <<packages, idx, pc, training, info, out, exc>>

----------------------------------------------------------------------------
(* Exact arithmetic standing for Python's float arithmetic.                *)

Abs(x) == IF x < 0 THEN -x ELSE x

RECURSIVE Gcd(_, _)
Gcd(a, b) == IF b = 0 THEN a ELSE Gcd(b, a % b)

Rat(n, d) ==
    LET Reduced(g, s) == <<(s * n) \div g, (s * d) \div g>>
    IN  Reduced(Gcd(Abs(n), Abs(d)), IF d < 0 THEN -1 ELSE 1)

Num(n) == <<n, 1>>
\* sums, differences and comparisons over the least common denominator
Add(a, b) ==
    LET Over(g) == Rat(a[1] * (b[2] \div g) + b[1] * (a[2] \div g),
                       (a[2] \div g) * b[2])
    IN  Over(Gcd(a[2], b[2]))
Sub(a, b) == Add(a, <<-b[1], b[2]>>)
Less(a, b) ==
    LET Over(g) == a[1] * (b[2] \div g) < b[1] * (a[2] \div g)
    IN  Over(Gcd(a[2], b[2]))
\* the operands are cross-reduced first, so that the products stay small
Mul(a, b) ==
    LET Cross(x, y) == <<x[1] * y[1], x[2] * y[2]>>
    IN  Cross(Rat(a[1], b[2]), Rat(b[1], a[2]))
\* a / b for b # 0 (the callers raise ZeroDivisionError for b = 0)
Div(a, b) == Mul(a, Rat(b[2], b[1]))
\* a // b for b # 0: the floor of the quotient, as a float
FloorDiv(a, b) == LET Floor(q) == Num(q[1] \div q[2]) IN Floor(Div(a, b))
IsZero(a) == a[1] = 0

----------------------------------------------------------------------------
(* Python values of a package's data list: numbers and strings.            *)

NumV(n, d) == [t |-> "num", q |-> Rat(n, d)]
StrV(s) == [t |-> "str", s |-> s]
IsNum(v) == v.t = "num"

(* The outcome of a call: a returned value, or the exception it raised.    *)
Ok(v) == [exc |-> "none", val |-> v]
Raise(type, arg) == [exc |-> type, arg |-> arg]
Raised(r) == r.exc # "none"

----------------------------------------------------------------------------
(* Class constants.                                                        *)

M_IN_KM == 1000
MINUTES_IN_HOUR == 60
LEN_STEP(cls) ==
    CASE cls = "Cycling" -> Rat(140, 100)
      [] cls = "Swimming" -> Rat(138, 100)
      [] OTHER -> Rat(65, 100)
COEFF_FOR_TRAIL == 6
COEFF_FOR_CLASSIC == Rat(25, 10)
COEFF3 == 18
COEFF4 == 20
COEFF_CALORIES_1 == Rat(35, 1000)
COEFF_CALORIES_2 == Rat(29, 1000)
COEFF1 == Rat(11, 10)
COEFF2 == 2

----------------------------------------------------------------------------
(* The training classes.  A reading is a record of the attributes its      *)
(* __init__ sets; a method is an operator giving the call's outcome.       *)

TrainingInit(cls, action, duration, weight) ==
    [cls |-> cls, action |-> action, duration |-> duration, weight |-> weight]

CyclingInit(action, duration, weight, area_type) ==
    [cls |-> "Cycling", action |-> action, duration |-> duration,
     weight |-> weight, area_type |-> area_type]

RunningInit(action, duration, weight) ==
    TrainingInit("Running", action, duration, weight)

SportsWalkingInit(action, duration, weight, height) ==
    [cls |-> "SportsWalking", action |-> action, duration |-> duration,
     weight |-> weight, height |-> height]

\* the two pool attributes bound the wrong way round
SwimmingInitSwapped(action, duration, weight, length_pool, count_pool) ==
    [cls |-> "Swimming", action |-> action, duration |-> duration,
     weight |-> weight, lenght_pool |-> count_pool, count_pool |-> length_pool]

SwimmingInit(action, duration, weight, length_pool, count_pool) ==
    [cls |-> "Swimming", action |-> action, duration |-> duration,
     weight |-> weight, lenght_pool |-> length_pool, count_pool |-> count_pool]

\* the number of positional parameters of cls.__init__, self excluded
Arity(cls) ==
    CASE cls = "Swimming" -> 5
      [] cls = "Running" -> 3
      [] cls = "SportsWalking" -> 4
      [] cls = "Cycling" -> 4

\* a constructor that takes further positional arguments and ignores them
ConstructIgnoringExtra(cls, data) ==
    IF Len(data) < Arity(cls)
    THEN Raise("TypeError", cls)
    ELSE CASE cls = "Swimming" ->
                Ok([cls |-> cls, action |-> data[1], duration |-> data[2],
                    weight |-> data[3], lenght_pool |-> data[4],
                    count_pool |-> data[5]])
           [] cls = "Running" ->
                Ok([cls |-> cls, action |-> data[1], duration |-> data[2],
                    weight |-> data[3]])
           [] cls = "SportsWalking" ->
                Ok([cls |-> cls, action |-> data[1], duration |-> data[2],
                    weight |-> data[3], height |-> data[4]])
           [] cls = "Cycling" ->
                Ok([cls |-> cls, action |-> data[1], duration |-> data[2],
                    weight |-> data[3], area_type |-> data[4]])

\* cls(*data): binding data to the parameters raises TypeError unless the
\* counts agree (no parameter has a default, none is variadic)
Construct(cls, data) ==
    IF Len(data) # Arity(cls)
    THEN Raise("TypeError", cls)
    ELSE CASE cls = "Swimming" ->
                Ok(SwimmingInit(data[1], data[2], data[3], data[4], data[5]))
           [] cls = "Running" ->
                Ok(RunningInit(data[1], data[2], data[3]))
           [] cls = "SportsWalking" ->
                Ok(SportsWalkingInit(data[1], data[2], data[3], data[4]))
           [] cls = "Cycling" ->
                Ok(CyclingInit(data[1], data[2], data[3], data[4]))

\* Training.get_distance, and its overrides in Cycling and Swimming, which
\* differ only in the class's LEN_STEP
get_distance(self) ==
    Ok(Div(Mul(self.action.q, LEN_STEP(self.cls)), Num(M_IN_KM)))

\* a mean speed that answers 0 for a zero duration instead of dividing
get_mean_speed_guarded(self) ==
    IF self.cls = "Swimming" /\ ~IsNum(self.lenght_pool)
    THEN Raise("TypeError", "/")
    ELSE IF IsZero(self.duration.q)
    THEN Ok(Num(0))
    ELSE IF self.cls = "Swimming"
    THEN Ok(Div(Div(Mul(self.lenght_pool.q, self.count_pool.q), Num(M_IN_KM)),
                self.duration.q))
    ELSE Ok(Div(Div(Mul(self.action.q, LEN_STEP(self.cls)), Num(M_IN_KM)),
                self.duration.q))

\* Training.get_mean_speed, and Swimming's override
get_mean_speed(self) ==
    IF self.cls = "Swimming"
    THEN IF ~IsNum(self.lenght_pool)
         THEN Raise("TypeError", "/")
         ELSE IF IsZero(self.duration.q)
              THEN Raise("ZeroDivisionError", "/")
              ELSE Ok(Div(Div(Mul(self.lenght_pool.q, self.count_pool.q),
                              Num(M_IN_KM)),
                          self.duration.q))
    ELSE IF IsZero(self.duration.q)
         THEN Raise("ZeroDivisionError", "/")
         ELSE Ok(Div(get_distance(self).val, self.duration.q))

\* the trail coefficient also for the misspelt "trial"
CyclingCaloriesLenient(self) ==
    LET WithSpeed(speed) ==
            IF Raised(speed) THEN speed
            ELSE Ok(Mul(Div(Mul(Mul(IF self.area_type
                                         \in {StrV("trail"), StrV("trial")}
                                    THEN Num(COEFF_FOR_TRAIL)
                                    ELSE COEFF_FOR_CLASSIC,
                                    speed.val),
                                self.weight.q),
                            Num(M_IN_KM)),
                        Mul(self.duration.q, Num(MINUTES_IN_HOUR))))
    IN  WithSpeed(get_mean_speed(self))

CyclingCalories(self) ==
    LET WithSpeed(speed) ==
            IF Raised(speed) THEN speed
            ELSE Ok(Mul(Div(Mul(Mul(IF self.area_type = StrV("trail")
                                    THEN Num(COEFF_FOR_TRAIL)
                                    ELSE COEFF_FOR_CLASSIC,
                                    speed.val),
                                self.weight.q),
                            Num(M_IN_KM)),
                        Mul(self.duration.q, Num(MINUTES_IN_HOUR))))
    IN  WithSpeed(get_mean_speed(self))

\* COEFF4 added instead of subtracted
RunningCaloriesAdded(self) ==
    LET WithSpeed(speed) ==
            IF Raised(speed) THEN speed
            ELSE Ok(Mul(Div(Mul(Add(Mul(Num(COEFF3), speed.val), Num(COEFF4)),
                                self.weight.q),
                            Num(M_IN_KM)),
                        Mul(self.duration.q, Num(MINUTES_IN_HOUR))))
    IN  WithSpeed(get_mean_speed(self))

RunningCalories(self) ==
    LET WithSpeed(speed) ==
            IF Raised(speed) THEN speed
            ELSE Ok(Mul(Div(Mul(Sub(Mul(Num(COEFF3), speed.val), Num(COEFF4)),
                                self.weight.q),
                            Num(M_IN_KM)),
                        Mul(self.duration.q, Num(MINUTES_IN_HOUR))))
    IN  WithSpeed(get_mean_speed(self))

\* speed ** 2 / height: true division
WalkingQuotientTrue(speed, height) == Div(Mul(speed, speed), height)

\* speed ** 2 // height
WalkingQuotient(speed, height) == FloorDiv(Mul(speed, speed), height)

SportsWalkingCalories(self) ==
    LET WithSpeed(speed) ==
            IF Raised(speed) THEN speed
            ELSE IF ~IsNum(self.height) THEN Raise("TypeError", "//")
            ELSE IF IsZero(self.height.q) THEN Raise("ZeroDivisionError", "//")
            ELSE Ok(Mul(Add(Mul(COEFF_CALORIES_1, self.weight.q),
                            Mul(Mul(WalkingQuotient(speed.val, self.height.q),
                                    COEFF_CALORIES_2),
                                self.weight.q)),
                        Mul(self.duration.q, Num(MINUTES_IN_HOUR))))
    IN  WithSpeed(get_mean_speed(self))

SwimmingCalories(self) ==
    LET WithSpeed(speed) ==
            IF Raised(speed) THEN speed
            ELSE Ok(Mul(Mul(Add(speed.val, COEFF1), Num(COEFF2)),
                        self.weight.q))
    IN  WithSpeed(get_mean_speed(self))

get_spent_calories(self) ==
    CASE self.cls = "Cycling" -> CyclingCalories(self)
      [] self.cls = "Running" -> RunningCalories(self)
      [] self.cls = "SportsWalking" -> SportsWalkingCalories(self)
      [] self.cls = "Swimming" -> SwimmingCalories(self)

InfoMessage(training_type, duration, distance, speed, calories) ==
    [training_type |-> training_type, duration |-> duration,
     distance |-> distance, speed |-> speed, calories |-> calories]

\* a report that resets the reading's action counter
show_training_info_resetting(self) ==
    LET With(distance, speed, calories) ==
            IF Raised(speed) THEN [self |-> self, res |-> speed]
            ELSE IF Raised(calories) THEN [self |-> self, res |-> calories]
            ELSE [self |-> [self EXCEPT !.action = NumV(0, 1)],
                  res |-> Ok(InfoMessage(self.cls, self.duration.q,
                                         distance.val, speed.val,
                                         calories.val))]
    IN  With(get_distance(self), get_mean_speed(self),
             get_spent_calories(self))

\* Training.show_training_info: the constructor's arguments are evaluated
\* left to right, and the first exception ends the call.  "self" is the
\* reading after the call: no method assigns an attribute.
show_training_info(self) ==
    LET With(distance, speed, calories) ==
            IF Raised(speed) THEN [self |-> self, res |-> speed]
            ELSE IF Raised(calories) THEN [self |-> self, res |-> calories]
            ELSE [self |-> self,
                  res |-> Ok(InfoMessage(self.cls, self.duration.q,
                                         distance.val, speed.val,
                                         calories.val))]
    IN  With(get_distance(self), get_mean_speed(self),
             get_spent_calories(self))

\* '{:.3f}': the value rounded to thousandths (half to even), with its sign
Fmt3(x) ==
    LET whole == Abs(x[1]) \div x[2]
        frac == (Abs(x[1]) % x[2]) * 1000
        fl == whole * 1000 + frac \div x[2]
        r2 == 2 * (frac % x[2])
        up == r2 > x[2] \/ (r2 = x[2] /\ fl % 2 = 1)
    IN  [neg |-> x[1] < 0, mil |-> IF up THEN fl + 1 ELSE fl]

\* InfoMessage.get_message: the template filled with the five fields
get_message(self) ==
    [training_type |-> self.training_type, duration |-> Fmt3(self.duration),
     distance |-> Fmt3(self.distance), speed |-> Fmt3(self.speed),
     calories |-> Fmt3(self.calories)]

\* read_package: the training_type dictionary, the membership test and the
\* construction
training_type(workout_type) ==
    CASE workout_type = "SWM" -> "Swimming"
      [] workout_type = "RUN" -> "Running"
      [] workout_type = "WLK" -> "SportsWalking"
      [] workout_type = "CYC" -> "Cycling"

WorkoutTypes == {"SWM", "RUN", "WLK", "CYC"}

\* an unknown code read as a running workout
read_package_default(workout_type, data) ==
    Construct(IF workout_type \in WorkoutTypes
              THEN training_type(workout_type) ELSE "Running", data)

read_package(workout_type, data) ==
    IF workout_type \notin WorkoutTypes
    THEN Raise("ValueError", workout_type)
    ELSE Construct(training_type(workout_type), data)

\* the line written before the lines already printed
PrintLineFirst(printed, line) == <<line>> \o printed

\* print(...): the line is written after the lines already printed
PrintLine(printed, line) == Append(printed, line)

\* main(training): show_training_info, then get_message and print.  The
\* outcome holds the reading after the call, the InfoMessage or the
\* exception raised, and the lines printed so far.
main(self, printed) ==
    LET With(r) ==
            [self |-> r.self, res |-> r.res,
             out |-> IF Raised(r.res) THEN printed
                     ELSE PrintLine(printed, get_message(r.res.val))]
    IN  With(show_training_info(self))

----------------------------------------------------------------------------
(* The inputs.                                                             *)

MaxBatch == 3
MaxReports == 2

Package(workout_type, data) == [workout_type |-> workout_type, data |-> data]

SwimmingData ==
    <<NumV(720, 1), NumV(1, 1), NumV(80, 1), NumV(25, 1), NumV(40, 1)>>
RunningData == <<NumV(15000, 1), NumV(1, 1), NumV(75, 1)>>
WalkingData == <<NumV(9000, 1), NumV(1, 1), NumV(75, 1), NumV(180, 1)>>
CyclingData == <<NumV(10000, 1), NumV(1, 1), NumV(75, 1), StrV("trial")>>

\* the packages of __main__
SamplePackages ==
    << Package("SWM", SwimmingData), Package("RUN", RunningData),
       Package("WLK", WalkingData), Package("CYC", CyclingData) >>

\* the sample packages, and packages that fail: codes read_package does not
\* know, lists too short or too long for the class, a zero duration, a zero
\* height, a string where the height is read
PackagePool ==
    {SamplePackages[k] : k \in 1..4}
        \cup {Package("XYZ", RunningData), Package("XYZ", SwimmingData),
              Package("run", RunningData),
              Package("RUN", WalkingData), Package("SWM", WalkingData),
              Package("WLK", RunningData), Package("CYC", SwimmingData),
              Package("RUN", <<NumV(15000, 1), NumV(0, 1), NumV(75, 1)>>),
              Package("WLK", <<NumV(9000, 1), NumV(1, 1), NumV(75, 1),
                               NumV(0, 1)>>),
              Package("WLK", CyclingData)}

RECURSIVE SeqsUpTo(_, _)
SeqsUpTo(S, n) ==
    IF n = 0 THEN {<<>>}
    ELSE LET shorter == SeqsUpTo(S, n - 1)
         IN  shorter \cup {Append(q, x) : q \in shorter, x \in S}

Batches == SeqsUpTo(PackagePool, MaxBatch)

Actions == {NumV(n, 1) : n \in {0, 1000, 9000, 10000, 15000}}
Strokes == {NumV(n, 1) : n \in {0, 720, 1000}}
Durations == {NumV(0, 1), NumV(1, 2), NumV(1, 1), NumV(2, 1)}
Weights == {NumV(75, 1), NumV(80, 1)}
Fourths == {NumV(n, 1) : n \in {0, 10, 13, 25, 180}}
               \cup {StrV("trail"), StrV("trial")}
Fifths == {NumV(0, 1), NumV(40, 1)}

ValueLists ==
    {<<a, d, w>> : a \in Actions, d \in Durations, w \in Weights}
        \cup {<<a, d, w, x>> : a \in Actions, d \in Durations, w \in Weights,
                               x \in Fourths}
        \cup {<<a, d, w, x, y>> : a \in Strokes, d \in Durations,
                                  w \in Weights, x \in Fourths, y \in Fifths}

\* the readings read_package returns for the value lists
Readings ==
    UNION {{read_package(c, d).val :
               d \in {v \in ValueLists : Len(v) = Arity(training_type(c))}} :
           c \in WorkoutTypes}

NoTraining == [cls |-> "None"]
NoInfo == [training_type |-> "None"]
NoException == [exc |-> "none"]

----------------------------------------------------------------------------
(* The driver: for workout_type, data in packages: read_package, main.     *)

\* the for statement takes the next package, or ends the program
NextIteration(i) ==
    [pc |-> IF i + 1 > Len(packages) THEN "done" ELSE "read", idx |-> i + 1]

\* a loop body that catches the exception and goes on with the next package
CaughtAndSkipped(i) ==
    [pc |-> IF i + 1 > Len(packages) THEN "done" ELSE "read", idx |-> i + 1]

\* no try statement encloses the loop's body: an exception ends the program
Uncaught(i) == [pc |-> "crashed", idx |-> i]

Init ==
    /\ packages \in Batches
    /\ idx = 1
    /\ pc = IF Len(packages) = 0 THEN "done" ELSE "read"
    /\ training = NoTraining
    /\ info = NoInfo
    /\ out = <<>>
    /\ exc = NoException

\* training = read_package(workout_type, data)
ReadPackage ==
    /\ pc = "read"
    /\ \E r \in {read_package(packages[idx].workout_type, packages[idx].data)} :
           IF Raised(r)
           THEN /\ exc' = r
                /\ pc' = Uncaught(idx).pc
                /\ idx' = Uncaught(idx).idx
                /\ UNCHANGED training
           ELSE /\ training' = r.val
                /\ pc' = "main"
                /\ UNCHANGED <<idx, exc>>
    /\ UNCHANGED <<packages, info, out>>

\* main(training)
Main ==
    /\ pc = "main"
    /\ \E r \in {main(training, out)} :
           /\ training' = r.self
           /\ out' = r.out
           /\ IF Raised(r.res)
              THEN /\ exc' = r.res
                   /\ pc' = Uncaught(idx).pc
                   /\ idx' = Uncaught(idx).idx
                   /\ UNCHANGED info
              ELSE /\ info' = r.res.val
                   /\ pc' = NextIteration(idx).pc
                   /\ idx' = NextIteration(idx).idx
                   /\ UNCHANGED exc
    /\ UNCHANGED packages

Next == ReadPackage \/ Main

Spec == Init /\ [][Next]_vars

----------------------------------------------------------------------------
(* The reporter alone: a caller holding one reading calls main on it, up   *)
(* to MaxReports times.                                                    *)

InitReporter ==
    /\ packages = <<>>
    /\ idx = 1
    /\ pc = "main"
    /\ training \in Readings
    /\ info = NoInfo
    /\ out = <<>>
    /\ exc = NoException

Report ==
    /\ pc = "main"
    /\ Len(out) < MaxReports
    /\ \E r \in {main(training, out)} :
           /\ training' = r.self
           /\ out' = r.out
           /\ IF Raised(r.res)
              THEN /\ exc' = r.res
                   /\ pc' = "crashed"
                   /\ UNCHANGED info
              ELSE /\ info' = r.res.val
                   /\ UNCHANGED <<pc, exc>>
    /\ UNCHANGED <<packages, idx>>

NextReporter == Report

SpecReporter == InitReporter /\ [][NextReporter]_vars

----------------------------------------------------------------------------
(* The error kinds of the description, as the exceptions the code raises.  *)

UnknownWorkoutTypeError == {"ValueError"}
InvalidReadingError == {"TypeError", "ZeroDivisionError"}

\* the variant and the number of values the description gives for a code
KnownCodes == {"SWM", "RUN", "WLK", "CYC"}
VariantOf(code) ==
    CASE code = "SWM" -> "Swimming"
      [] code = "RUN" -> "Running"
      [] code = "WLK" -> "SportsWalking"
      [] code = "CYC" -> "Cycling"
ValuesOf(code) ==
    CASE code = "SWM" -> 5
      [] code = "RUN" -> 3
      [] code = "WLK" -> 4
      [] code = "CYC" -> 4

\* the package the driver is at
Code == packages[idx].workout_type
Data == packages[idx].data

\* C1: dispatching a code that is not exactly "SWM", "RUN", "WLK" or "CYC",
\* whatever the value list, raises UnknownWorkoutTypeError carrying the code,
\* and constructs no reading.
C1_UnknownCodeFails ==
    [][(pc = "read" /\ Code \notin KnownCodes)
         => /\ pc' = "crashed"
            /\ exc'.exc \in UnknownWorkoutTypeError
            /\ exc'.arg = Code
            /\ training' = training]_vars

\* a second package with the lower-case code "run" was refused, the reading
\* of the first package still being the last one constructed
C1_Witness ==
    /\ pc = "crashed"
    /\ idx = 2
    /\ Code = "run"
    /\ exc.exc = "ValueError"
    /\ training.cls = "Swimming"

\* C2: dispatching a known code with a value list whose length is not the
\* variant's arity raises InvalidReadingError and returns no reading.
C2_WrongArityFails ==
    [][(pc = "read" /\ Code \in KnownCodes /\ Len(Data) # ValuesOf(Code))
         => /\ pc' = "crashed"
            /\ exc'.exc \in InvalidReadingError
            /\ training' = training]_vars

\* "RUN" with four values was refused
C2_Witness ==
    /\ pc = "crashed"
    /\ Code = "RUN"
    /\ Len(Data) = 4
    /\ exc.exc = "TypeError"
    /\ training = NoTraining

\* C4: dispatching a known code with a list of exactly the variant's arity
\* returns a reading of the matching variant, its fields the list's values in
\* positional order, and changes nothing else.
C4_DispatchBindsInOrder ==
    [][(pc = "read" /\ Code \in KnownCodes /\ Len(Data) = ValuesOf(Code))
         => /\ pc' = "main"
            /\ training'.cls = VariantOf(Code)
            /\ training'.action = Data[1]
            /\ training'.duration = Data[2]
            /\ training'.weight = Data[3]
            /\ Code = "CYC" => training'.area_type = Data[4]
            /\ Code = "WLK" => training'.height = Data[4]
            /\ Code = "SWM" => /\ training'.lenght_pool = Data[4]
                               /\ training'.count_pool = Data[5]
            /\ DOMAIN training' =
                 {"cls", "action", "duration", "weight"}
                 \cup (CASE Code = "CYC" -> {"area_type"}
                         [] Code = "WLK" -> {"height"}
                         [] Code = "SWM" -> {"lenght_pool", "count_pool"}
                         [] OTHER -> {})
            /\ UNCHANGED <<packages, idx, info, out, exc>>]_vars

\* the swimming package was dispatched as the second of a batch
C4_Witness ==
    /\ pc = "main"
    /\ idx = 2
    /\ Len(out) = 1
    /\ Code = "SWM"
    /\ training.cls = "Swimming"
    /\ training.lenght_pool = NumV(25, 1)
    /\ training.count_pool = NumV(40, 1)

\* a pair the description calls valid: a known code, as many values as the
\* variant takes, a non-zero duration, numbers where numbers are divided
ValidPair(p) ==
    /\ p.workout_type \in KnownCodes
    /\ Len(p.data) = ValuesOf(p.workout_type)
    /\ ~IsZero(p.data[2].q)
    /\ p.workout_type = "WLK" => IsNum(p.data[4]) /\ ~IsZero(p.data[4].q)
    /\ p.workout_type = "SWM" => IsNum(p.data[4])

\* the report line of a valid pair
LineOf(p) ==
    get_message(
        show_training_info(read_package(p.workout_type, p.data).val).res.val)

\* C8: for a batch of valid pairs the driver prints one line per pair in
\* input order: at every moment the printed lines are the reports of the
\* pairs already processed, in their order, and at the end there is one line
\* per pair.
C8_OneLinePerPairInOrder ==
    (\A k \in 1..Len(packages) : ValidPair(packages[k]))
        => /\ pc \in {"read", "main", "done"}
           /\ Len(out) = idx - 1
           /\ \A k \in 1..Len(out) : out[k] = LineOf(packages[k])
           /\ pc = "done" => Len(out) = Len(packages)

\* a batch of three valid pairs, the running, the swimming and the cycling
\* sample, was processed to the end
C8_Witness ==
    /\ pc = "done"
    /\ Len(packages) = 3
    /\ packages[1].workout_type = "RUN"
    /\ packages[2].workout_type = "SWM"
    /\ packages[3].workout_type = "CYC"
    /\ Len(out) = 3
    /\ out[1].training_type = "Running"
    /\ out[2].training_type = "Swimming"
    /\ out[3].training_type = "Cycling"

\* the failures of a pair the description lists: an unknown code or a wrong
\* number of values at dispatch, a division by zero while reporting
FailsAtDispatch == Code \notin KnownCodes \/ Len(Data) # ValuesOf(Code)
DividesByZero(t) ==
    \/ IsZero(t.duration.q)
    \/ t.cls = "SportsWalking" /\ IsNum(t.height) /\ IsZero(t.height.q)

\* C10: when the k-th pair fails, the driver aborts the batch: the lines of
\* pairs 1..k-1 are printed, no line is printed for pair k, and no step
\* follows the failure, so no later pair is dispatched or reported.
C10_FailureAbortsBatch ==
    [][/\ pc # "crashed"
       /\ ((pc = "read" /\ FailsAtDispatch)
             \/ (pc = "main" /\ DividesByZero(training)))
            => pc' = "crashed" /\ idx' = idx /\ out' = out
       /\ pc' = "crashed"
            => /\ exc'.exc \in UnknownWorkoutTypeError \cup InvalidReadingError
               /\ Len(out') = idx' - 1
               /\ \A k \in 1..(idx' - 1) : out'[k] = LineOf(packages[k])]_vars

\* the second of three pairs failed while reporting: one line is printed
\* and the third pair is left
C10_Witness ==
    /\ pc = "crashed"
    /\ Len(packages) = 3
    /\ idx = 2
    /\ exc.exc = "ZeroDivisionError"
    /\ Len(out) = 1
    /\ ValidPair(packages[3])

\* a reading whose fields have the types the description gives them
WellTyped(t) ==
    /\ t.cls = "SportsWalking" => IsNum(t.height)
    /\ t.cls = "Swimming" => IsNum(t.lenght_pool)

\* the reading has been reported at least once
Reported == Len(out) >= 1

\* C3: reporting a reading of any activity with a zero duration, or a sport
\* walking reading with a zero height, fails with the division by zero (an
\* InvalidReadingError), which reaches the caller, and prints no line.
C3_ZeroDivisionPropagates ==
    [][(pc = "main" /\ WellTyped(training) /\ DividesByZero(training))
         => /\ pc' = "crashed"
            /\ exc'.exc = "ZeroDivisionError"
            /\ exc'.exc \in InvalidReadingError
            /\ out' = out
            /\ info' = info]_vars

\* the report of a sport walking reading with a non-zero duration and a zero
\* height failed
C3_Witness ==
    /\ pc = "crashed"
    /\ training.cls = "SportsWalking"
    /\ ~IsZero(training.duration.q)
    /\ training.height = NumV(0, 1)
    /\ exc.exc = "ZeroDivisionError"
    /\ out = <<>>

\* within half a thousandth of mil / 1000: the value printed with three
\* decimals is mil / 1000
Approx(x, mil) == Fmt3(x) = [neg |-> FALSE, mil |-> mil]

\* the running reading of scenario B
ScenarioB == TrainingInit("Running", NumV(15000, 1), NumV(1, 1), NumV(75, 1))

\* (18 * meanSpeed - 20) * weightKg / 1000 * (durationHours * 60)
RunningFormula(meanSpeed, weightKg, durationHours) ==
    Mul(Div(Mul(Sub(Mul(Num(18), meanSpeed), Num(20)), weightKg), Num(1000)),
        Mul(durationHours, Num(60)))

\* C5, as stated: scenario B yields a distance and a mean speed of about
\* 9.750 and the calories of the running formula, about 129.150.
C5_AsStated ==
    (training = ScenarioB /\ Reported)
        => /\ Approx(info.distance, 9750)
           /\ Approx(info.speed, 9750)
           /\ info.calories = RunningFormula(info.speed, Num(75), Num(1))
           /\ Approx(info.calories, 129150)

\* C5, amended: scenario B yields a distance and a mean speed of about 9.750
\* and the calories of the running formula, which are 699.750.
C5_ScenarioB ==
    (training = ScenarioB /\ Reported)
        => /\ Approx(info.distance, 9750)
           /\ Approx(info.speed, 9750)
           /\ info.calories = RunningFormula(info.speed, Num(75), Num(1))
           /\ info.calories = Rat(699750, 1000)
           /\ out[1].calories = [neg |-> FALSE, mil |-> 699750]

\* scenario B has been reported
C5_Witness ==
    /\ training = ScenarioB
    /\ Reported
    /\ info.training_type = "Running"
    /\ info.speed = Rat(975, 100)

\* (k * meanSpeed * weightKg / 1000) * (durationHours * 60)
CyclingFormula(k, meanSpeed, weightKg, durationHours) ==
    Mul(Div(Mul(Mul(k, meanSpeed), weightKg), Num(1000)),
        Mul(durationHours, Num(60)))

\* C6: the calories of a cycling reading are the cycling formula with k = 6
\* when areaType is exactly the string "trail", and with k = 2.5 for every
\* other areaType, the driver's "trial" included.
C6_TrailCoefficient ==
    (training.cls = "Cycling" /\ Reported)
        => info.calories =
             CyclingFormula(IF training.area_type = StrV("trail")
                            THEN Num(6) ELSE Rat(5, 2),
                            info.speed, training.weight.q,
                            training.duration.q)

\* the driver's cycling package, with "trial", has been reported: 157.5 kcal
\* of the coefficient 2.5, not the 378 of the coefficient 6
C6_Witness ==
    /\ training = CyclingInit(NumV(10000, 1), NumV(1, 1), NumV(75, 1),
                              StrV("trial"))
    /\ Reported
    /\ info.calories = Rat(1575, 10)
    /\ info.calories # CyclingFormula(Num(6), info.speed, Num(75), Num(1))

\* (0.035 * weightKg + q * 0.029 * weightKg) * (durationHours * 60), for a
\* quotient q of meanSpeed^2 by heightCm
WalkingFormula(q, weightKg, durationHours) ==
    Mul(Add(Mul(Rat(35, 1000), weightKg),
            Mul(Mul(q, Rat(29, 1000)), weightKg)),
        Mul(durationHours, Num(60)))

\* meanSpeed^2 / heightCm, its floor, and whether the division leaves a
\* remainder
TrueQuotient(meanSpeed, heightCm) == Div(Mul(meanSpeed, meanSpeed), heightCm)
FloorOf(x) == Num(x[1] \div x[2])
HasRemainder(x) == x[2] # 1

\* C7: the calories of a sport walking reading with positive duration,
\* weight and height are the walking formula with the floor of
\* meanSpeed^2 / heightCm; when the division leaves a remainder they are
\* strictly smaller than the formula gives with the true quotient.
C7_FloorDivision ==
    (/\ training.cls = "SportsWalking"
     /\ Reported
     /\ Less(Num(0), training.duration.q)
     /\ Less(Num(0), training.weight.q)
     /\ IsNum(training.height)
     /\ Less(Num(0), training.height.q))
        => /\ info.calories =
                 WalkingFormula(
                     FloorOf(TrueQuotient(info.speed, training.height.q)),
                     training.weight.q, training.duration.q)
           /\ HasRemainder(TrueQuotient(info.speed, training.height.q))
                => Less(info.calories,
                        WalkingFormula(
                            TrueQuotient(info.speed, training.height.q),
                            training.weight.q, training.duration.q))

\* scenario C has been reported: 34.2225 / 180 floors to 0, so the
\* calories are 0.035 * 75 * 60 = 157.5
C7_Witness ==
    /\ training = SportsWalkingInit(NumV(9000, 1), NumV(1, 1), NumV(75, 1),
                                    NumV(180, 1))
    /\ Reported
    /\ HasRemainder(TrueQuotient(info.speed, Num(180)))
    /\ info.calories = Rat(1575, 10)

\* C9: a report changes no field of the reading, and every further report
\* of the same reading gives the same summary and the same line.
C9_ReportIsRepeatable ==
    [][/\ training' = training
       /\ Reported => /\ pc' = "main"
                      /\ info' = info
                      /\ out' = Append(out, out[Len(out)])]_vars

\* a swimming reading has been reported twice
C9_Witness ==
    /\ training.cls = "Swimming"
    /\ Len(out) = 2
    /\ out[1] = out[2]
    /\ out[1].training_type = "Swimming"

====
